---- MODULE Spec2Model ----
(***************************************************************************)
(* rtget: a multi-connection downloader.  The model follows one process    *)
(* run: argument parsing, URL validation, the HEAD probe, the range        *)
(* planner, the dispatcher with its N concurrent chunk tasks, the merger   *)
(* and the process exit code.                                              *)
(*                                                                         *)
(* Numbers.  Byte offsets are usize/u64.  A value v of Z/2^64 is held as   *)
(* its representative nearest to zero: a small natural stands for itself   *)
(* and a negative k stands for 2^64 + k (so -1 is u64::MAX).  Wrapping     *)
(* addition and subtraction are then the integer ones, and the unsigned    *)
(* order is ULt below.  Rust panics on overflow in a build with overflow   *)
(* checks (debug) and wraps without them (release): `build` is the one     *)
(* the binary was compiled as.                                             *)
(*                                                                         *)
(* Bytes.  The remote resource of length total holds the byte p + 1 at     *)
(* offset p, so every byte names its own position; 0 is a byte that is     *)
(* not part of the resource (stale file content, bytes past the end).      *)
(***************************************************************************)
EXTENDS Integers, Sequences, FiniteSets, TLC

\* ------------------------------------------------------------ bounds
MaxConn == 3
MaxTotal == 3
MaxBuf == 2
PlanMaxTotal == 24

\* args.rs: "max number of connections is 100" (documented, never enforced).
MaxConnections == 100

VARIABLES
    build,          \* "debug" | "release": overflow checks on or off
    prior,          \* "clean" | "stale": files left by an earlier run
    pc,             \* where main is
    connections,    \* args.connections
    total_size,     \* result of the HEAD probe
    byte_ranges,    \* main.rs:70
    tasks,          \* Vec<DownloadTask> of calculate_download_chunks
    tstate,         \* per task: "running" | "streaming" | "ok" | "panicked"
    tresp,          \* per task: what the server answered to the range GET
    tresult,        \* per task: what download_chunk returned
    tlast,          \* per task: what stream.next() yielded last
    total_downloaded, \* per task: http.rs total_downloaded
    total_written,  \* per task: http.rs total_written
    offset,         \* per task: http.rs offset
    parts,          \* index -> file {output}_part_{index}
    output,         \* the file at output_path
    joined,         \* handles awaited so far by execute_all
    merged,         \* loop index of merge_chunks
    exit_code,      \* <<>> while the process runs, <<code>> once it ended
    error           \* the AppError main reported, "none" otherwise

vars == <<build, prior, pc, connections, total_size, byte_ranges, tasks,
          tstate, tresp, tresult, tlast, total_downloaded, total_written,
          offset, parts, output, joined, merged, exit_code, error>>

\* ------------------------------------------------------------ u64 arithmetic
\* Unsigned a < b on the representatives.
ULt(a, b) == IF (a >= 0) = (b >= 0) THEN a < b ELSE a >= 0

ULe(a, b) == a = b \/ ULt(a, b)

\* std::cmp::min on usize / u64::min.
UMin(a, b) == IF ULt(b, a) THEN b ELSE a

\* a - b leaves [0, 2^64): "attempt to subtract with overflow".
SubOverflows(a, b) == ULt(a, b)

\* a + b (b a small natural) leaves [0, 2^64): "attempt to add with overflow".
AddOverflows(a, b) == a < 0 /\ a + b >= 0

\* ------------------------------------------------------------ files
NoFile == [exists |-> FALSE, data |-> <<>>]

File(d) == [exists |-> TRUE, data |-> d]

\* What an earlier run may have left at a path: longer than any chunk.
StaleFile == File([k \in 1..(MaxTotal + 1) |-> 0])

PartIds == 0..(MaxConn - 1)

FileBefore == IF prior = "stale" THEN StaleFile ELSE NoFile

\* The byte of the remote resource at offset p.
Byte(p, total) == IF 0 <= p /\ p < total THEN p + 1 ELSE 0

Remote(total) == [p \in 1..total |-> Byte(p - 1, total)]

\* ------------------------------------------------------------ range planner
\* Variant of chunk_size: the division rounds down instead of up.
chunk_size_floor(conns, total) == total \div conns

\* mod.rs:92
chunk_size(conns, total) == (total + conns - 1) \div conns

\* Variant of range_at: the end is not cut at total - 1.
range_at_unclamped(i, cs, total) ==
    LET start == i * cs
    IN  <<start, start + cs - 1>>

\* mod.rs:97-99, the closure's body for index i.
range_at(i, cs, total) ==
    LET start == i * cs
        end == UMin(start + cs - 1, total - 1)
    IN  <<start, end>>

\* mod.rs:91-104: the division by zero, and with overflow checks the
\* subtractions start + chunk_size - 1 and total_file_size - 1.
planner_panics(conns, total, bld) ==
    \/ conns = 0
    \/ /\ bld = "debug"
       /\ \/ SubOverflows(total, 1)
          \/ \E i \in 0..(conns - 1) :
                SubOverflows(i * chunk_size(conns, total) + chunk_size(conns, total), 1)

\* mod.rs:91-104
calculate_byte_ranges(conns, total) ==
    [k \in 1..conns |-> range_at(k - 1, chunk_size(conns, total), total)]

\* The bytes an inclusive range of small offsets denotes (none when
\* start > end).
Bytes(r) == r[1]..r[2]

\* http.rs:23, expected_size = (end - start + 1) as u64, wrapping.
expected_size(r) == r[2] - r[1] + 1

\* http.rs:23 with overflow checks: end - start, then + 1.
expected_size_panics(r) ==
    SubOverflows(r[2], r[1]) \/ AddOverflows(r[2] - r[1], 1)

RECURSIVE SumSizes(_)
SumSizes(rs) ==
    IF rs = <<>> THEN 0 ELSE expected_size(Head(rs)) + SumSizes(Tail(rs))

\* ------------------------------------------------------------ planner alone
PlanInit ==
    /\ build \in {"debug", "release"}
    /\ prior = "clean"
    /\ pc = "plan"
    /\ connections \in 0..MaxConnections
    /\ total_size \in 0..PlanMaxTotal
    /\ byte_ranges = <<>>
    /\ tasks = <<>>
    /\ tstate = <<>>
    /\ tresp = <<>>
    /\ tresult = <<>>
    /\ tlast = <<>>
    /\ total_downloaded = <<>>
    /\ total_written = <<>>
    /\ offset = <<>>
    /\ parts = [i \in PartIds |-> NoFile]
    /\ output = NoFile
    /\ joined = 0
    /\ merged = 0
    /\ exit_code = <<>>
    /\ error = "none"

\* main.rs:70
Plan ==
    /\ pc = "plan"
    /\ exit_code = <<>>
    /\ IF planner_panics(connections, total_size, build)
       THEN /\ pc' = "exited"
            /\ exit_code' = <<101>>   \* the panic unwinds main
            /\ UNCHANGED byte_ranges
       ELSE /\ pc' = "path"
            /\ byte_ranges' = calculate_byte_ranges(connections, total_size)
            /\ UNCHANGED exit_code
    /\ UNCHANGED <<build, prior, connections, total_size, tasks, tstate,
                   tresp, tresult, tlast, total_downloaded, total_written,
                   offset, parts, output, joined, merged, error>>

PlanNext == Plan

SpecPlanner == PlanInit /\ [][PlanNext]_vars

\* ------------------------------------------------------------ the whole run
Init ==
    /\ build \in {"debug", "release"}
    /\ prior \in {"clean", "stale"}
    /\ pc = "args"
    /\ connections = 1
    /\ total_size = 0
    /\ byte_ranges = <<>>
    /\ tasks = <<>>
    /\ tstate = <<>>
    /\ tresp = <<>>
    /\ tresult = <<>>
    /\ tlast = <<>>
    /\ total_downloaded = <<>>
    /\ total_written = <<>>
    /\ offset = <<>>
    /\ parts = [i \in PartIds |-> FileBefore]
    /\ output = FileBefore
    /\ joined = 0
    /\ merged = 0
    /\ exit_code = <<>>
    /\ error = "none"

\* main.rs:31-38: run returned Err(e); main prints it and exits with 1.
ExitWith(e) ==
    /\ pc' = "exited"
    /\ exit_code' = <<1>>
    /\ error' = e

\* A panic that unwinds main: the process ends with Rust's panic status.
Panic ==
    /\ pc' = "exited"
    /\ exit_code' = <<101>>
    /\ UNCHANGED error

\* args.rs:19-22: connections is a u8 option; every u8 is accepted.
ConnInputs == 0..MaxConn

\* main.rs:26
ParseArgs ==
    /\ pc = "args"
    /\ \E c \in ConnInputs : connections' = c
    /\ pc' = "validate"
    /\ UNCHANGED <<build, prior, total_size, byte_ranges, tasks, tstate,
                   tresp, tresult, tlast, total_downloaded, total_written,
                   offset, parts, output, joined, merged, exit_code, error>>

\* main.rs:43-44, url_validator.rs:8-23
ValidateUrl ==
    /\ pc = "validate"
    /\ \/ /\ pc' = "probe"
          /\ UNCHANGED <<exit_code, error>>
       \/ ExitWith("UrlParseError")
    /\ UNCHANGED <<build, prior, connections, total_size, byte_ranges, tasks,
                   tstate, tresp, tresult, tlast, total_downloaded,
                   total_written, offset, parts, output, joined, merged>>

\* main.rs:68, http.rs:110-134: the HEAD probe.
Probe ==
    /\ pc = "probe"
    /\ \/ /\ \E t \in 0..MaxTotal : total_size' = t
          /\ pc' = "plan"
          /\ UNCHANGED <<exit_code, error>>
       \/ /\ ExitWith("CouldNotConnect")
          /\ UNCHANGED total_size
    /\ UNCHANGED <<build, prior, connections, byte_ranges, tasks, tstate,
                   tresp, tresult, tlast, total_downloaded, total_written,
                   offset, parts, output, joined, merged>>

\* main.rs:73-84
DerivePath ==
    /\ pc = "path"
    /\ \/ /\ pc' = "chunks"
          /\ UNCHANGED <<exit_code, error>>
       \/ ExitWith("CouldNotConnect")
    /\ UNCHANGED <<build, prior, connections, total_size, byte_ranges, tasks,
                   tstate, tresp, tresult, tlast, total_downloaded,
                   total_written, offset, parts, output, joined, merged>>

\* Variant of download_tasks: the last range gets no task.
download_tasks_short(conns, total) ==
    [k \in 1..(conns - 1) |->
        [start |-> calculate_byte_ranges(conns, total)[k][1],
         end   |-> calculate_byte_ranges(conns, total)[k][2],
         index |-> k - 1]]

\* mod.rs:126-136
download_tasks(conns, total) ==
    [k \in 1..conns |->
        [start |-> calculate_byte_ranges(conns, total)[k][1],
         end   |-> calculate_byte_ranges(conns, total)[k][2],
         index |-> k - 1]]

\* main.rs:86, mod.rs:109-139: the second probe, the planner again, the tasks.
\* The resource has not changed, so the planner returns what it returned at
\* main.rs:70 and does not panic here.
CalculateDownloadChunks ==
    /\ pc = "chunks"
    /\ \/ /\ tasks' = download_tasks(connections, total_size)
          /\ pc' = "spawn"
          /\ UNCHANGED <<exit_code, error>>
       \/ /\ ExitWith("CouldNotConnect")
          /\ UNCHANGED tasks
    /\ UNCHANGED <<build, prior, connections, total_size, byte_ranges, tstate,
                   tresp, tresult, tlast, total_downloaded, total_written,
                   offset, parts, output, joined, merged>>

\* ------------------------------------------------------------ dispatcher
\* Variant of after_handles: the loop is only left after a handle has been
\* awaited, so an empty list of handles never ends it.
after_handles_nonempty(j, n) ==
    IF j = n /\ n > 0 THEN "merge_open" ELSE "join"

\* concurrency.rs:78-80: `for handle in handles` is over when j of the n
\* handles have been awaited and none is left; execute_all then returns and
\* main.rs:91-92 goes on to the merger.
after_handles(j, n) == IF j = n THEN "merge_open" ELSE "join"

\* concurrency.rs:61-75: one spawned task per DownloadTask.  With no task the
\* join loop is empty and execute_all returns.
SpawnAll ==
    /\ pc = "spawn"
    /\ tstate' = [k \in 1..Len(tasks) |-> "running"]
    /\ tresp' = [k \in 1..Len(tasks) |-> "none"]
    /\ tresult' = [k \in 1..Len(tasks) |-> "none"]
    /\ tlast' = [k \in 1..Len(tasks) |-> "none"]
    /\ total_downloaded' = [k \in 1..Len(tasks) |-> 0]
    /\ total_written' = [k \in 1..Len(tasks) |-> 0]
    /\ offset' = [k \in 1..Len(tasks) |-> 0]
    /\ joined' = 0
    /\ pc' = after_handles(0, Len(tasks))
    /\ UNCHANGED <<build, prior, connections, total_size, byte_ranges, tasks,
                   parts, output, merged, exit_code, error>>

\* ------------------------------------------------------------ chunk task
\* What the server may answer to the range GET: no answer at all, a status
\* other than 206, or 206 with the Content-Range absent, mismatching or
\* matching "bytes {start}-{end}/".
Responses ==
    {"send_error", "200", "416", "206_missing", "206_mismatch", "206_match"}

\* Variant of response_accepted: any success status passes, as in
\* ftp.rs:9-11, and a 200 is not asked for a Content-Range.
response_accepted_any_2xx(resp) == resp \in {"200", "206_match"}

\* Variant of response_accepted: a 206 passes whatever its Content-Range.
response_accepted_any_206(resp) ==
    resp \in {"206_missing", "206_mismatch", "206_match"}

\* http.rs:32-44: status 206 and a Content-Range with the expected prefix.
response_accepted(resp) == resp = "206_match"

\* http.rs:26-30 (send failed), 34-44 (header), 104 (status): every refusal
\* is AppError::CouldNotConnect.
response_error(resp) == "CouldNotConnect"

\* Variant of create_file: the file is opened without truncation.
create_file_keep(file) == File(file.data)

\* filesystem.rs:59-65: File::create truncates what is there.
create_file(file) == File(<<>>)

\* seek(SeekFrom::Start(pos)) and write_all(buf) on a file.
WriteAt(file, pos, buf) ==
    IF buf = <<>> THEN file
    ELSE LET old == file.data
             n == IF Len(old) > pos + Len(buf) THEN Len(old) ELSE pos + Len(buf)
         IN  File([k \in 1..n |->
                     IF pos < k /\ k <= pos + Len(buf) THEN buf[k - pos]
                     ELSE IF k <= Len(old) THEN old[k] ELSE 0])

\* Variant of write_chunk: the seek goes to the absolute offset start, not
\* to the offset within the part.
write_chunk_absolute(file, chunk, start, part_start, max_size) ==
    LET part_offset == start - part_start
    IN  IF ~ULt(part_offset, max_size)
        THEN [written |-> 0, file |-> file]
        ELSE LET write_size == UMin(max_size - part_offset, Len(chunk))
             IN  [written |-> write_size,
                  file |-> WriteAt(file, start, SubSeq(chunk, 1, write_size))]

\* Variant of write_chunk: no test of the part offset against max_size.
write_chunk_unguarded(file, chunk, start, part_start, max_size) ==
    LET part_offset == start - part_start
        write_size == UMin(max_size - part_offset, Len(chunk))
    IN  [written |-> write_size,
         file |-> WriteAt(file, part_offset, SubSeq(chunk, 1, write_size))]

\* filesystem.rs:104-122
write_chunk(file, chunk, start, part_start, max_size) ==
    LET part_offset == start - part_start
    IN  IF ~ULt(part_offset, max_size)
        THEN [written |-> 0, file |-> file]
        ELSE LET write_size == UMin(max_size - part_offset, Len(chunk))
             IN  [written |-> write_size,
                  file |-> WriteAt(file, part_offset, SubSeq(chunk, 1, write_size))]

TaskRange(i) == <<tasks[i].start, tasks[i].end>>

\* Variant of part_index: every chunk is given the path of part 0.
part_index_zero(i) == 0

\* http.rs:48: the partial of a chunk is {file_path}_part_{index}.
part_index(i) == tasks[i].index

\* concurrency.rs:70-72: execute(..).await.unwrap() inside the spawned task:
\* an Err of download_chunk panics the task.
TaskFails(i, e) ==
    /\ tstate' = [tstate EXCEPT ![i] = "panicked"]
    /\ tresult' = [tresult EXCEPT ![i] = e]

\* http.rs:91-102: after the loop, the size check.
TaskFinishes(i, tw) ==
    IF tw = expected_size(TaskRange(i))
    THEN /\ tstate' = [tstate EXCEPT ![i] = "ok"]
         /\ tresult' = [tresult EXCEPT ![i] = "Ok"]
    ELSE TaskFails(i, "CouldNotConnect")

\* http.rs:23-55: expected_size, the request, the checks on the response and
\* the creation of the partial file.
TaskStart(i) ==
    /\ pc = "join"
    /\ tstate[i] = "running"
    /\ IF build = "debug" /\ expected_size_panics(TaskRange(i))
       THEN /\ tstate' = [tstate EXCEPT ![i] = "panicked"]
            /\ tresult' = [tresult EXCEPT ![i] = "panic"]
            /\ UNCHANGED <<tresp, offset, parts>>
       ELSE \E resp \in Responses :
            /\ tresp' = [tresp EXCEPT ![i] = resp]
            /\ IF response_accepted(resp)
               THEN \/ /\ parts' = [parts EXCEPT ![part_index(i)] = create_file(@)]
                       /\ tstate' = [tstate EXCEPT ![i] = "streaming"]
                       /\ offset' = [offset EXCEPT ![i] = tasks[i].start]
                       /\ UNCHANGED tresult
                    \/ /\ TaskFails(i, "CouldNotConnect")  \* File::create failed
                       /\ UNCHANGED <<offset, parts>>
               ELSE /\ TaskFails(i, response_error(resp))
                    /\ UNCHANGED <<offset, parts>>
    /\ UNCHANGED <<build, prior, pc, connections, total_size, byte_ranges,
                   tasks, tlast, total_downloaded, total_written, output,
                   joined, merged, exit_code, error>>

\* The server stops sending once the body has this many bytes.
MaxBody == MaxTotal + 1

\* The next b bytes of the body of chunk i: the resource from start onwards.
Buffer(i, b) ==
    [k \in 1..b |->
        Byte(tasks[i].start + total_downloaded[i] + k - 1, total_size)]

\* Variant of Received: the buffer is written whole, with no cut at
\* expected_size in the loop or in write_chunk.
Received_whole(i, b) ==
    LET chunk == Buffer(i, b)
        part_offset == offset[i] - tasks[i].start
    IN  /\ tlast' = [tlast EXCEPT ![i] = "data"]
        /\ total_downloaded' = [total_downloaded EXCEPT ![i] = @ + Len(chunk)]
        /\ parts' = [parts EXCEPT ![part_index(i)] =
                        WriteAt(@, part_offset, chunk)]
        /\ total_written' = [total_written EXCEPT ![i] = @ + Len(chunk)]
        /\ offset' = [offset EXCEPT ![i] = @ + Len(chunk)]
        /\ IF ~ULt(total_written[i] + Len(chunk), expected_size(TaskRange(i)))
           THEN TaskFinishes(i, total_written[i] + Len(chunk))
           ELSE UNCHANGED <<tstate, tresult>>

\* http.rs:57-89: one turn of the streaming loop on a buffer of b bytes.
\* Seeking and writing in the partial the task has just created are taken to
\* succeed.
Received(i, b) ==
    LET chunk == Buffer(i, b)
        remaining == expected_size(TaskRange(i)) - total_written[i]
        write_size == UMin(Len(chunk), remaining)
        w == write_chunk(parts[part_index(i)], SubSeq(chunk, 1, write_size),
                         offset[i], tasks[i].start, expected_size(TaskRange(i)))
    IN  /\ tlast' = [tlast EXCEPT ![i] = "data"]
        /\ total_downloaded' = [total_downloaded EXCEPT ![i] = @ + Len(chunk)]
        /\ parts' = [parts EXCEPT ![part_index(i)] = w.file]
        /\ total_written' = [total_written EXCEPT ![i] = @ + w.written]
        /\ offset' = [offset EXCEPT ![i] = @ + w.written]
        /\ IF ~ULt(total_written[i] + w.written, expected_size(TaskRange(i)))
           THEN TaskFinishes(i, total_written[i] + w.written)
           ELSE UNCHANGED <<tstate, tresult>>

\* http.rs:57-102: stream.next() yields a buffer, an error or the end.
TaskRecv(i) ==
    /\ pc = "join"
    /\ tstate[i] = "streaming"
    /\ \/ \E b \in 1..MaxBuf :
            /\ ULt(total_downloaded[i], MaxBody)
            /\ Received(i, b)
       \/ /\ tlast' = [tlast EXCEPT ![i] = "error"]
          /\ TaskFails(i, "CouldNotConnect")   \* http.rs:58
          /\ UNCHANGED <<total_downloaded, total_written, offset, parts>>
       \/ /\ tlast' = [tlast EXCEPT ![i] = "end"]
          /\ TaskFinishes(i, total_written[i])
          /\ UNCHANGED <<total_downloaded, total_written, offset, parts>>
    /\ UNCHANGED <<build, prior, pc, connections, total_size, byte_ranges,
                   tasks, tresp, output, joined, merged, exit_code, error>>

\* Variant of Join: execute_all returns as soon as the first handle has
\* yielded Ok, without awaiting the others.
Join_first ==
    /\ pc = "join"
    /\ joined < Len(tasks)
    /\ \/ /\ tstate[joined + 1] = "ok"
          /\ joined' = joined + 1
          /\ pc' = "merge_open"
          /\ UNCHANGED <<exit_code, error>>
       \/ /\ tstate[joined + 1] = "panicked"
          /\ Panic
          /\ UNCHANGED joined
    /\ UNCHANGED <<build, prior, connections, total_size, byte_ranges, tasks,
                   tstate, tresp, tresult, tlast, total_downloaded,
                   total_written, offset, parts, output, merged>>

\* concurrency.rs:78-80: handle.await.unwrap(), in index order.  The handle of
\* a panicked task yields a JoinError and the unwrap panics in main; the
\* process ends whatever the other tasks are doing.
Join ==
    /\ pc = "join"
    /\ joined < Len(tasks)
    /\ \/ /\ tstate[joined + 1] = "ok"
          /\ joined' = joined + 1
          /\ pc' = after_handles(joined + 1, Len(tasks))
          /\ UNCHANGED <<exit_code, error>>
       \/ /\ tstate[joined + 1] = "panicked"
          /\ Panic
          /\ UNCHANGED joined
    /\ UNCHANGED <<build, prior, connections, total_size, byte_ranges, tasks,
                   tstate, tresp, tresult, tlast, total_downloaded,
                   total_written, offset, parts, output, merged>>

\* ------------------------------------------------------------ merger
\* Variant of open_truncate: the file is opened for writing as it is.
open_keep(file) == File(file.data)

\* filesystem.rs:179-184: OpenOptions write, create, truncate.
open_truncate(file) == File(<<>>)

\* filesystem.rs:179-185: the output is created or truncated first.
MergeOpen ==
    /\ pc = "merge_open"
    /\ \/ /\ output' = open_truncate(output)
          /\ merged' = 0
          /\ pc' = "merge"
          /\ UNCHANGED <<exit_code, error>>
       \/ /\ ExitWith("CouldNotConnect")
          /\ UNCHANGED <<output, merged>>
    /\ UNCHANGED <<build, prior, connections, total_size, byte_ranges, tasks,
                   tstate, tresp, tresult, tlast, total_downloaded,
                   total_written, offset, parts, joined>>

\* Variant of merge_append: the partial goes before what was merged so far.
merge_append_front(out, part) == File(part.data \o out.data)

\* filesystem.rs:201-217: read the partial to its end, write it to the output.
merge_append(out, part) == File(out.data \o part.data)

\* Variant of path_exists: the existence check always passes.
path_exists_always(file) == TRUE

\* filesystem.rs:194: part_file_path.exists()
path_exists(file) == file.exists

\* filesystem.rs:188-219: one turn of the loop over 0..num_chunks.
MergePart ==
    /\ pc = "merge"
    /\ merged < connections
    /\ IF ~path_exists(parts[merged])
       THEN /\ ExitWith("CouldNotConnect")   \* "Partial file missing"
            /\ UNCHANGED <<output, merged>>
       ELSE \/ /\ output' = merge_append(output, parts[merged])
               /\ merged' = merged + 1
               /\ UNCHANGED <<pc, exit_code, error>>
            \/ /\ ExitWith("CouldNotConnect")   \* open, read or write failed
               /\ UNCHANGED <<output, merged>>
    /\ UNCHANGED <<build, prior, connections, total_size, byte_ranges, tasks,
                   tstate, tresp, tresult, tlast, total_downloaded,
                   total_written, offset, parts, joined>>

\* filesystem.rs:222-226
MergeFlush ==
    /\ pc = "merge"
    /\ merged = connections
    /\ \/ /\ pc' = "cleanup"
          /\ merged' = 0
          /\ UNCHANGED <<exit_code, error>>
       \/ /\ ExitWith("CouldNotConnect")
          /\ UNCHANGED merged
    /\ UNCHANGED <<build, prior, connections, total_size, byte_ranges, tasks,
                   tstate, tresp, tresult, tlast, total_downloaded,
                   total_written, offset, parts, output, joined>>

\* Variant of remove_file: the file stays.
remove_file_keep(file) == file

\* filesystem.rs:234: tokio::fs::remove_file
remove_file(file) == NoFile

\* filesystem.rs:229-239: one turn of the cleanup loop.
Cleanup ==
    /\ pc = "cleanup"
    /\ merged < connections
    /\ \/ /\ parts' = [parts EXCEPT ![merged] =
                          IF @.exists THEN remove_file(@) ELSE @]
          /\ merged' = merged + 1
          /\ UNCHANGED <<pc, exit_code, error>>
       \/ /\ parts[merged].exists
          /\ ExitWith("CouldNotConnect")   \* remove_file failed
          /\ UNCHANGED <<parts, merged>>
    /\ UNCHANGED <<build, prior, connections, total_size, byte_ranges, tasks,
                   tstate, tresp, tresult, tlast, total_downloaded,
                   total_written, offset, output, joined>>

\* filesystem.rs:241, main.rs:95-97, main.rs:39: run returns Ok and main ends.
Finish ==
    /\ pc = "cleanup"
    /\ merged = connections
    /\ pc' = "done"
    /\ exit_code' = <<0>>
    /\ UNCHANGED <<build, prior, connections, total_size, byte_ranges, tasks,
                   tstate, tresp, tresult, tlast, total_downloaded,
                   total_written, offset, parts, output, joined, merged,
                   error>>

Next ==
    \/ ParseArgs
    \/ ValidateUrl
    \/ Probe
    \/ Plan
    \/ DerivePath
    \/ CalculateDownloadChunks
    \/ SpawnAll
    \/ \E i \in 1..Len(tasks) : TaskStart(i)
    \/ \E i \in 1..Len(tasks) : TaskRecv(i)
    \/ Join
    \/ MergeOpen
    \/ MergePart
    \/ MergeFlush
    \/ Cleanup
    \/ Finish

Spec == Init /\ [][Next]_vars

\* ------------------------------------------------------------ resume ranges
\* Variant of adjusted_range: the start always advances by the length of the
\* partial, with no cut at end + 1.
adjusted_range_unclamped(r, file) ==
    IF ~file.exists THEN r ELSE <<r[1] + Len(file.data), r[2]>>

\* filesystem.rs:163-173, the loop body for one range and the file at its
\* partial path; std::fs::metadata of a file that exists is taken to succeed.
adjusted_range(r, file) ==
    IF ~file.exists THEN r
    ELSE LET downloaded == Len(file.data)
         IN  IF ULe(downloaded, r[2] - r[1])
             THEN <<r[1] + downloaded, r[2]>>
             ELSE <<r[2] + 1, r[2]>>

\* filesystem.rs:168-171 with overflow checks: *end - *start, then
\* *start += downloaded or *end + 1.
adjusted_range_panics(r, file, bld) ==
    /\ bld = "debug"
    /\ file.exists
    /\ \/ SubOverflows(r[2], r[1])
       \/ IF ULe(Len(file.data), r[2] - r[1])
          THEN AddOverflows(r[1], Len(file.data))
          ELSE AddOverflows(r[2], 1)

\* filesystem.rs:155-175: range i is adjusted by the partial of index i.
calculate_byte_ranges_on_existing_files(rs) ==
    [i \in 1..Len(rs) |-> adjusted_range(rs[i], parts[i - 1])]

\* Offsets a range may be made of: the first few, and the last two of u64
\* (u64::MAX - 1 and u64::MAX).
ResumeOffsets == {0, 1, 2, -2, -1}

ResumeRanges == {<<a, b>> : a \in ResumeOffsets, b \in ResumeOffsets}

\* filesystem.rs:155-158: the function called on any vector of up to two
\* ranges, each partial path holding nothing or a file of 0..MaxTotal bytes.
ResumeInit ==
    /\ build \in {"debug", "release"}
    /\ prior = "clean"
    /\ pc = "resume"
    /\ total_size = 0
    /\ byte_ranges \in UNION {[1..n -> ResumeRanges] : n \in 0..2}
    /\ connections = Len(byte_ranges)
    /\ tasks = <<>>
    /\ tstate = <<>>
    /\ tresp = <<>>
    /\ tresult = <<>>
    /\ tlast = <<>>
    /\ total_downloaded = <<>>
    /\ total_written = <<>>
    /\ offset = <<>>
    /\ \E f \in [0..1 -> {NoFile} \cup
                           {File([k \in 1..n |-> 0]) : n \in 0..MaxTotal}] :
          parts = [i \in PartIds |-> IF i \in 0..1 THEN f[i] ELSE NoFile]
    /\ output = NoFile
    /\ joined = 0
    /\ merged = 0
    /\ exit_code = <<>>
    /\ error = "none"

\* filesystem.rs:155-175: the call; the vector is adjusted in place.
ResumeRangesCall ==
    /\ pc = "resume"
    /\ IF \E i \in DOMAIN byte_ranges :
             adjusted_range_panics(byte_ranges[i], parts[i - 1], build)
       THEN /\ Panic
            /\ UNCHANGED byte_ranges
       ELSE /\ byte_ranges' = calculate_byte_ranges_on_existing_files(byte_ranges)
            /\ pc' = "resumed"
            /\ UNCHANGED <<exit_code, error>>
    /\ UNCHANGED <<build, prior, connections, total_size, tasks, tstate, tresp,
                   tresult, tlast, total_downloaded, total_written, offset,
                   parts, output, joined, merged>>

ResumeNext == ResumeRangesCall

SpecResume == ResumeInit /\ [][ResumeNext]_vars

\* ------------------------------------------------------------ write_chunk alone
\* filesystem.rs:104: one call of write_chunk on an opened partial of any
\* length, for any part_start, max_size and start >= part_start.  The one
\* task of the state carries part_start as its start and max_size as its
\* expected_size; offset is the start argument.
WriteInit ==
    /\ build \in {"debug", "release"}
    /\ prior = "clean"
    /\ pc = "write_chunk"
    /\ connections = 1
    /\ total_size = MaxBuf + 1
    /\ byte_ranges = <<>>
    /\ \E ps \in 0..1 : \E ms \in 0..MaxTotal :
          tasks = <<[start |-> ps, end |-> ps + ms - 1, index |-> 0]>>
    /\ tstate = <<"streaming">>
    /\ tresp = <<"206_match">>
    /\ tresult = <<"none">>
    /\ tlast = <<"none">>
    /\ total_downloaded = <<0>>
    /\ total_written = <<0>>
    /\ \E pos \in 0..(MaxTotal + 1) : offset = <<tasks[1].start + pos>>
    /\ \E n \in 0..MaxTotal :
          parts = [i \in PartIds |->
                      IF i = 0 THEN File([k \in 1..n |-> 0]) ELSE NoFile]
    /\ output = NoFile
    /\ joined = 0
    /\ merged = 0
    /\ exit_code = <<>>
    /\ error = "none"

\* filesystem.rs:104-122: the call, on a buffer of b bytes; total_downloaded
\* keeps the length of the buffer and total_written the count returned.
WriteChunk ==
    /\ pc = "write_chunk"
    /\ \E b \in 0..MaxBuf :
          LET w == write_chunk(parts[0], Buffer(1, b), offset[1],
                               tasks[1].start, expected_size(TaskRange(1)))
          IN  /\ parts' = [parts EXCEPT ![0] = w.file]
              /\ total_written' = <<w.written>>
              /\ total_downloaded' = <<b>>
    /\ pc' = "written"
    /\ UNCHANGED <<build, prior, connections, total_size, byte_ranges, tasks,
                   tstate, tresp, tresult, tlast, offset, output, joined,
                   merged, exit_code, error>>

WriteNext == WriteChunk

SpecWrite == WriteInit /\ [][WriteNext]_vars

\* ------------------------------------------------------------ dispatcher alone
\* concurrency.rs:55-60: ConcurrentDownloader::new(tasks).execute_all() on the
\* task list of any N in 0..MaxConn, the empty list of concurrency.rs:131-136
\* included.
DispatchInit ==
    /\ build \in {"debug", "release"}
    /\ prior \in {"clean", "stale"}
    /\ pc = "spawn"
    /\ connections \in 0..MaxConn
    /\ total_size \in 1..MaxTotal
    /\ byte_ranges = <<>>
    /\ tasks = download_tasks(connections, total_size)
    /\ tstate = <<>>
    /\ tresp = <<>>
    /\ tresult = <<>>
    /\ tlast = <<>>
    /\ total_downloaded = <<>>
    /\ total_written = <<>>
    /\ offset = <<>>
    /\ parts = [i \in PartIds |-> FileBefore]
    /\ output = FileBefore
    /\ joined = 0
    /\ merged = 0
    /\ exit_code = <<>>
    /\ error = "none"

DispatchNext ==
    \/ SpawnAll
    \/ \E i \in 1..Len(tasks) : TaskStart(i)
    \/ \E i \in 1..Len(tasks) : TaskRecv(i)
    \/ Join

SpecDispatch == DispatchInit /\ [][DispatchNext]_vars

\* ------------------------------------------------------------ merger alone
\* What a partial path may hold when merge_chunks is called: nothing, or a
\* file of any content.
MergeParts == {NoFile} \cup {File(d) : d \in {<<>>, <<1>>, <<2, 3>>}}

\* filesystem.rs:177: merge_chunks(output_path, num_chunks) called on any
\* state of the directory, for any num_chunks: u8.
MergeInit ==
    /\ build \in {"debug", "release"}
    /\ prior \in {"clean", "stale"}
    /\ pc = "merge_open"
    /\ connections \in 0..MaxConn
    /\ total_size = 0
    /\ byte_ranges = <<>>
    /\ tasks = <<>>
    /\ tstate = <<>>
    /\ tresp = <<>>
    /\ tresult = <<>>
    /\ tlast = <<>>
    /\ total_downloaded = <<>>
    /\ total_written = <<>>
    /\ offset = <<>>
    /\ parts \in [PartIds -> MergeParts]
    /\ output = FileBefore
    /\ joined = 0
    /\ merged = 0
    /\ exit_code = <<>>
    /\ error = "none"

MergeNext ==
    \/ MergeOpen
    \/ MergePart
    \/ MergeFlush
    \/ Cleanup
    \/ Finish

SpecMerge == MergeInit /\ [][MergeNext]_vars

\* ------------------------------------------------------------ claims
Planned == byte_ranges # <<>>

\* C1: for every N in 1..100 and every total > 0 the planned ranges, read as
\* sets of byte offsets, are pairwise disjoint and their union is exactly
\* 0..total-1.
C1_RangesPartition ==
    (Planned /\ connections \in 1..MaxConnections /\ total_size > 0) =>
        /\ \A j \in DOMAIN byte_ranges : \A k \in DOMAIN byte_ranges :
              j < k => Bytes(byte_ranges[j]) \cap Bytes(byte_ranges[k]) = {}
        /\ UNION {Bytes(byte_ranges[k]) : k \in DOMAIN byte_ranges}
              = 0..(total_size - 1)

\* A plan whose last chunk is shorter: N = 3, total = 10.
C1_Witness ==
    /\ connections = 3
    /\ total_size = 10
    /\ byte_ranges = <<<<0, 3>>, <<4, 7>>, <<8, 9>>>>

\* C2: every range the planner emits satisfies start <= end, for every N.
C2_StartLeEnd ==
    \A k \in DOMAIN byte_ranges :
        ULe(byte_ranges[k][1], byte_ranges[k][2])

\* C3: for total > 0 the chunk sizes end - start + 1 are computed without
\* underflow and sum to total, and only the last chunk is shorter than
\* chunk_size.
C3_SizesSumToTotal ==
    (Planned /\ total_size > 0) =>
        /\ \A k \in DOMAIN byte_ranges : ~expected_size_panics(byte_ranges[k])
        /\ SumSizes(byte_ranges) = total_size
        /\ \A k \in 1..(Len(byte_ranges) - 1) :
              expected_size(byte_ranges[k]) = chunk_size(connections, total_size)

\* C4: when the probe has reported total = 0, the next thing the run does is
\* fail with CouldNotConnect, the planner not having run.
C4_EmptyResourceFailsBeforePlanning ==
    [][(pc = "plan" /\ total_size = 0) =>
          /\ pc' = "exited"
          /\ exit_code' = <<1>>
          /\ error' = "CouldNotConnect"
          /\ byte_ranges' = <<>>]_vars

\* C5: once the arguments are accepted and the run goes on to probe, plan,
\* dispatch or merge, the connection count is within 1..100.
C5_ConnectionsInRange ==
    pc \in {"probe", "plan", "path", "chunks", "spawn", "join", "merge_open",
            "merge", "cleanup", "done"}
        => connections \in 1..MaxConnections

\* C6: after a successful run the output file has length total and holds the
\* remote resource byte for byte.
C6_OutputEqualsRemote ==
    pc = "done" =>
        /\ output.exists
        /\ Len(output.data) = total_size
        /\ output.data = Remote(total_size)

\* A successful run of two chunks of different sizes over stale files.
C6_Witness ==
    /\ pc = "done"
    /\ connections = 2
    /\ total_size = 3
    /\ prior = "stale"
    /\ output.data = <<1, 2, 3>>

\* C7: after a successful run no partial file {output}_part_i, i in 0..N-1,
\* exists.
C7_NoPartialsAfterSuccess ==
    pc = "done" => \A i \in 0..(connections - 1) : ~parts[i].exists

\* A successful run of three chunks whose partials were all deleted.
C7_Witness ==
    /\ pc = "done"
    /\ connections = 3
    /\ total_size = 3
    /\ \A i \in 1..3 : tstate[i] = "ok"

\* C8: after a run that failed the output file is absent or is what it was
\* before the run.
C8_FailedRunLeavesOutput ==
    (exit_code # <<>> /\ exit_code # <<0>>) =>
        (~output.exists \/ output = FileBefore)

\* C9: the process ends with 0 exactly when the run succeeded and with 1 on
\* every error, a failing chunk task included (stated for runs whose N and
\* total are at least 1, where the planner itself does not panic).
C9_ExitCodes ==
    (exit_code # <<>> /\ connections >= 1 /\ total_size >= 1) =>
        \/ exit_code = <<0>> /\ pc = "done"
        \/ exit_code = <<1>> /\ error # "none" /\ pc = "exited"

\* C10: a chunk whose range GET was answered with a status other than 206
\* fails with CouldNotConnect, its partial file is neither created nor
\* written, and the run produces no output file.
C10_Non206Fails ==
    \A i \in DOMAIN tresp :
        tresp[i] \in {"200", "416"} =>
            /\ tstate[i] = "panicked"
            /\ tresult[i] = "CouldNotConnect"
            /\ parts[part_index(i)] = FileBefore
            /\ output = FileBefore
            /\ pc # "done"

\* Chunk 0 was answered 200 OK while chunk 1 was downloaded whole, and the
\* process has ended.
C10_Witness ==
    /\ Len(tresp) = 2
    /\ exit_code # <<>>
    /\ tresp[1] = "200"
    /\ tstate[2] = "ok"

\* C11: a chunk whose 206 answer has no Content-Range, or one that does not
\* start with "bytes {start}-{end}/", fails with CouldNotConnect; its partial
\* file is not created and no byte of the body is written.
C11_BadContentRangeFails ==
    \A i \in DOMAIN tresp :
        tresp[i] \in {"206_missing", "206_mismatch"} =>
            /\ tstate[i] = "panicked"
            /\ tresult[i] = "CouldNotConnect"
            /\ parts[part_index(i)] = FileBefore
            /\ total_written[i] = 0
            /\ total_downloaded[i] = 0

\* Chunk 1 was answered 206 with a Content-Range of another range, over a
\* stale partial, while chunk 0 has written a byte.
C11_Witness ==
    /\ Len(tresp) = 2
    /\ prior = "stale"
    /\ tresp[2] = "206_mismatch"
    /\ tstate[2] = "panicked"
    /\ total_written[1] > 0

\* C12: in the streaming loop of a chunk, whatever the sizes of the buffers
\* received, total_written never exceeds expected_size = end - start + 1 and
\* the partial file the chunk has created holds no byte at a part-relative
\* offset at or beyond expected_size; once the server has sent more than
\* expected_size bytes the loop has ended with total_written = expected_size.
C12_WritesStopAtExpectedSize ==
    \A i \in DOMAIN total_written :
        LET exp == expected_size(TaskRange(i))
            part == parts[part_index(i)]
        IN  /\ ULe(total_written[i], exp)
            /\ (part.exists /\ part # FileBefore) => ULe(Len(part.data), exp)
            /\ ULt(exp, total_downloaded[i]) =>
                  /\ tstate[i] # "streaming"
                  /\ total_written[i] = exp

\* One chunk of 3 bytes whose body came as two buffers of 2 bytes: the
\* fourth byte was received and not written.
C12_Witness ==
    /\ pc = "join"
    /\ Len(tasks) = 1
    /\ total_size = 3
    /\ total_downloaded[1] = 4
    /\ total_written[1] = 3
    /\ Len(parts[0].data) = 3

\* C13: once the stream of a chunk has ended (or the loop has stopped on a
\* full chunk), download_chunk has returned Ok exactly when total_written =
\* expected_size; a body that ended short gave CouldNotConnect; and a chunk
\* that returned Ok has left a partial file of exactly end - start + 1 bytes,
\* whatever the path held before the run.
C13_SuccessIffWholeChunk ==
    \A i \in DOMAIN tstate :
        LET exp == expected_size(TaskRange(i))
            part == parts[part_index(i)]
        IN  /\ (tstate[i] \in {"ok", "panicked"} /\ tlast[i] \in {"data", "end"}) =>
                  /\ tresult[i] = "Ok" <=> total_written[i] = exp
                  /\ total_written[i] # exp => tresult[i] = "CouldNotConnect"
            /\ tresult[i] = "Ok" =>
                  /\ total_written[i] = exp
                  /\ pc \in {"join", "merge_open", "merge"} => part.exists
                  /\ part.exists => Len(part.data) = exp

\* Over stale partial files, chunk 0 (2 bytes) returned Ok and the body of
\* chunk 1 ended before its one byte came.
C13_Witness ==
    /\ Len(tresult) = 2
    /\ total_size = 3
    /\ prior = "stale"
    /\ tresult[1] = "Ok"
    /\ Len(parts[0].data) = 2
    /\ tlast[2] = "end"
    /\ total_written[2] = 0
    /\ tresult[2] = "CouldNotConnect"

\* C14: execute_all is left, normally or with an error, only when every
\* spawned chunk task has terminated.
C14_AllTasksTerminatedAtReturn ==
    (pc \in {"merge_open", "merge", "cleanup", "done", "exited"}
        /\ tstate # <<>>) =>
        \A i \in DOMAIN tstate : tstate[i] \in {"ok", "panicked"}

\* C15: when chunk tasks have failed, the error the run reports is the one
\* download_chunk returned in the failing task of smallest index.
C15_FirstErrorInIndexOrder ==
    (pc = "exited" /\ \E i \in DOMAIN tstate : tstate[i] = "panicked") =>
        LET first == CHOOSE i \in DOMAIN tstate :
                        /\ tstate[i] = "panicked"
                        /\ \A j \in 1..(i - 1) : tstate[j] # "panicked"
        IN  tresult[first] # "panic" => error = tresult[first]

\* C16: when a chunk has failed, every other chunk whose range GET was
\* answered correctly and whose stream met no fault has, by the end of the
\* process, run to its end and left a partial file of its expected length.
C16_SiblingsRunToEnd ==
    (pc = "exited" /\ \E j \in DOMAIN tstate : tstate[j] = "panicked") =>
        \A i \in DOMAIN tstate :
            tstate[i] \in {"streaming", "ok"} =>
                /\ tstate[i] = "ok"
                /\ parts[part_index(i)].exists
                /\ Len(parts[part_index(i)].data) = expected_size(TaskRange(i))

\* C17: a chunk task that panicked makes execute_all return an error, which
\* is TaskError when the task died of a panic of its own; the dispatcher, and
\* with it main, does not panic.
C17_TaskPanicBecomesTaskError ==
    (pc = "exited" /\ \E i \in DOMAIN tstate : tstate[i] = "panicked") =>
        /\ exit_code = <<1>>
        /\ tresult[joined + 1] = "panic" => error = "TaskError"

\* C18: the partial paths of distinct chunks differ, and a step of the task
\* of chunk i, in any interleaving, changes no partial file other than
\* {output}_part_i.
C18_TaskWritesOwnPartial ==
    [][pc = "join" =>
          /\ \A i \in DOMAIN tasks : \A j \in DOMAIN tasks :
                i # j => part_index(i) # part_index(j)
          /\ \A i \in DOMAIN tstate :
                (\/ tstate'[i] # tstate[i]
                 \/ total_downloaded'[i] # total_downloaded[i]) =>
                    \A p \in PartIds \ {tasks[i].index} : parts'[p] = parts[p]
          /\ \A p \in PartIds :
                parts'[p] # parts[p] =>
                    \E i \in DOMAIN tstate :
                        /\ tasks[i].index = p
                        /\ tstate[i] \in {"running", "streaming"}]_vars

\* Two chunks in flight at once, each having written its first byte to its
\* own partial.
C18_Witness ==
    /\ pc = "join"
    /\ Len(tasks) = 2
    /\ total_size = 3
    /\ tstate[1] = "streaming"
    /\ parts[0].data = <<1>>
    /\ parts[1].data = <<3>>

\* The contents of partials 0 .. n-1, one after the other.
RECURSIVE PartialsUpTo(_)
PartialsUpTo(n) ==
    IF n = 0 THEN <<>> ELSE PartialsUpTo(n - 1) \o parts[n - 1].data

\* C19: while merge_chunks runs the output holds partials 0 .. merged-1 in
\* index order and nothing else; when its loop and flush have succeeded the
\* output is the concatenation of partials 0 .. N-1, and each byte of the
\* partial of range [start_i, end_i] is at output offset start_i onwards.
C19_OutputIsConcatenation ==
    /\ pc = "merge" => (output.exists /\ output.data = PartialsUpTo(merged))
    /\ (pc = "cleanup" /\ merged = 0) =>
          /\ output.exists
          /\ output.data = PartialsUpTo(connections)
          /\ \A i \in DOMAIN tasks :
                \A k \in 1..Len(parts[tasks[i].index].data) :
                    output.data[tasks[i].start + k] = parts[tasks[i].index].data[k]

\* Two partials of 2 and 1 bytes merged over a stale output file, before the
\* cleanup loop has removed anything.
C19_Witness ==
    /\ pc = "cleanup"
    /\ merged = 0
    /\ prior = "stale"
    /\ connections = 2
    /\ parts[0].data = <<1, 2>>
    /\ parts[1].data = <<3>>
    /\ output.data = <<1, 2, 3>>

\* C20: when merge_chunks comes to a partial {output_path}_part_i, i < N,
\* that does not exist, it fails there with CouldNotConnect, and up to and
\* including that failure it has deleted no partial file.
C20_MissingPartialFailsMerge ==
    [][(pc = "merge_open" \/ pc = "merge") =>
          /\ parts' = parts
          /\ (pc = "merge" /\ merged < connections /\ ~parts[merged].exists) =>
                /\ pc' = "exited"
                /\ exit_code' = <<1>>
                /\ error' = "CouldNotConnect"]_vars

\* merge_chunks over three partial paths of which the middle one is missing:
\* it has failed after appending partial 0, and partials 0 and 2 are there.
C20_Witness ==
    /\ pc = "exited"
    /\ error = "CouldNotConnect"
    /\ connections = 3
    /\ merged = 1
    /\ parts[0] = File(<<2, 3>>)
    /\ ~parts[1].exists
    /\ parts[2].exists
    /\ output.data = <<2, 3>>

\* C21: once every partial has been appended and the output flushed,
\* merge_chunks does not fail: a partial that cannot be deleted is passed
\* over and the cleanup loop goes on to the next one.
C21_DeleteFailureIsNotFatal ==
    [][(pc = "cleanup") =>
          /\ pc' # "exited"
          /\ merged < connections => merged' = merged + 1]_vars

\* C22: when the run has failed, every partial file that a chunk task
\* created is still on disk.
C22_FailedRunKeepsPartials ==
    (exit_code # <<>> /\ exit_code # <<0>>) =>
        \A i \in DOMAIN tstate :
            (tstate[i] \in {"streaming", "ok"} \/ tlast[i] # "none") =>
                parts[part_index(i)].exists

\* C23: the output file is not opened before the dispatcher has returned,
\* and from the moment the merger starts every chunk task has terminated
\* with success and every handle has been awaited, so no chunk task runs
\* while the merger reads the partials.
C23_PhasesInOrder ==
    /\ pc \in {"merge_open", "merge", "cleanup", "done"} =>
          /\ joined = Len(tasks)
          /\ \A i \in DOMAIN tstate : tstate[i] = "ok"
    /\ pc \in {"args", "validate", "probe", "plan", "path", "chunks", "spawn",
               "join", "merge_open"} => output = FileBefore

\* The merger at work on the second of three partials, the three chunk
\* tasks having all returned Ok.
C23_Witness ==
    /\ pc = "merge"
    /\ merged = 1
    /\ Len(tstate) = 3
    /\ joined = 3
    /\ \A i \in 1..3 : tstate[i] = "ok"

\* C24: execute_all on an empty task list spawns no task and returns, with
\* no error and no panic.
C24_NoTasksReturns ==
    (tasks = <<>> /\ pc # "spawn") =>
        /\ pc = "merge_open"
        /\ tstate = <<>>
        /\ exit_code = <<>>
        /\ error = "none"
        /\ parts = [i \in PartIds |-> FileBefore]

\* execute_all has returned from an empty task list.
C24_Witness ==
    /\ tasks = <<>>
    /\ connections = 0
    /\ pc = "merge_open"
    /\ joined = 0

\* C25: for N >= 1 and total >= 1, calculate_byte_ranges(N, total) returns
\* exactly N ranges, range i being (i * chunk, min(i * chunk + chunk - 1,
\* total - 1)) with chunk the least c such that c * N >= total; N = 1 gives
\* the one range (0, total - 1), total = N gives the ranges (i, i), and
\* (4, 1000) gives (0,249) (250,499) (500,749) (750,999).
C25_PlannerFormula ==
    /\ (Planned /\ connections >= 1 /\ total_size >= 1) =>
          LET chunk == CHOOSE c \in 1..total_size :
                          c * connections >= total_size
                          /\ (c - 1) * connections < total_size
          IN  /\ Len(byte_ranges) = connections
              /\ \A i \in 0..(connections - 1) :
                    /\ byte_ranges[i + 1][1] = i * chunk
                    /\ byte_ranges[i + 1][2] =
                          IF i * chunk + chunk - 1 < total_size - 1
                          THEN i * chunk + chunk - 1
                          ELSE total_size - 1
              /\ connections = 1 => byte_ranges = <<<<0, total_size - 1>>>>
              /\ connections = total_size =>
                    \A i \in 0..(connections - 1) : byte_ranges[i + 1] = <<i, i>>
    /\ calculate_byte_ranges(4, 1000)
          = <<<<0, 249>>, <<250, 499>>, <<500, 749>>, <<750, 999>>>>

\* The plan of total = N = 4: four one-byte ranges.
C25_Witness ==
    /\ connections = 4
    /\ total_size = 4
    /\ byte_ranges = <<<<0, 0>>, <<1, 1>>, <<2, 2>>, <<3, 3>>>>

C27_NoReceiveAfterFull ==
    [][(pc = "join") =>
          \A i \in DOMAIN tstate :
              (tstate[i] # "running"
                  /\ total_written[i] = expected_size(TaskRange(i))) =>
                  /\ total_downloaded'[i] = total_downloaded[i]
                  /\ total_written'[i] = total_written[i]
                  /\ parts'[part_index(i)] = parts[part_index(i)]]_vars

\* C28: a chunk whose response body failed to be read in mid-stream fails
\* with the error kind CouldNotReadChunk.
C28_StreamErrorIsCouldNotReadChunk ==
    \A i \in DOMAIN tlast :
        tlast[i] = "error" => tresult[i] = "CouldNotReadChunk"

\* C29: from the creation of its partial on, a chunk has offset = part_start
\* + total_written, and its partial file holds exactly the first
\* total_written bytes of the body, in order, with no gap and no overlap: its
\* length is total_written.
C29_WritesAreContiguous ==
    \A i \in DOMAIN tstate :
        (tstate[i] \in {"streaming", "ok"} \/ tlast[i] # "none") =>
            /\ offset[i] = tasks[i].start + total_written[i]
            /\ parts[part_index(i)].exists =>
                  /\ Len(parts[part_index(i)].data) = total_written[i]
                  /\ \A k \in 1..total_written[i] :
                        parts[part_index(i)].data[k]
                            = Byte(tasks[i].start + k - 1, total_size)

\* Chunk 0 (bytes 0-1) has written its first byte and chunk 1 (byte 2) its
\* only one.
C29_Witness ==
    /\ pc = "join"
    /\ Len(tstate) = 2
    /\ total_size = 3
    /\ tstate[1] = "streaming"
    /\ offset[1] = 1
    /\ parts[0].data = <<1>>
    /\ tstate[2] = "ok"
    /\ offset[2] = 3
    /\ parts[1].data = <<3>>

\* C30: as many chunk tasks are dispatched as the merger has partials to go
\* over, N of each, and when the dispatcher has returned with success every
\* partial 0 .. N-1 is there for the merger to find.
C30_TasksMatchMergedPartials ==
    /\ pc \in {"spawn", "join", "merge_open", "merge"} =>
          /\ Len(tasks) = connections
          /\ \A i \in DOMAIN tasks : tasks[i].index = i - 1
    /\ pc \in {"merge_open", "merge"} =>
          \A p \in 0..(connections - 1) : parts[p].exists

\* The merger before the last of three partials.
C30_Witness ==
    /\ pc = "merge"
    /\ connections = 3
    /\ Len(tasks) = 3
    /\ merged = 2
    /\ parts[2].exists

\* The relation of C31 between a range r, the file at its partial path and
\* the range q returned for it: the end is kept; without a partial the start
\* is kept; with a partial of d bytes the start is start + d when d <= end -
\* start and end + 1 otherwise, and start <= start' <= end + 1.
AdjustedAsClaimed(r, q, file) ==
    /\ q[2] = r[2]
    /\ IF ~file.exists THEN q[1] = r[1]
       ELSE LET d == Len(file.data)
            IN  /\ q[1] = IF ULe(d, r[2] - r[1]) THEN r[1] + d ELSE r[2] + 1
                /\ ULe(r[1], q[1])
                /\ ULe(q[1], r[2]) \/ q[1] = r[2] + 1

\* C31 as stated: for every range with start <= end and every partial
\* length, calculate_byte_ranges_on_existing_files returns the range
\* adjusted as claimed.
C31_AdjustsEveryRange ==
    [][(pc = "resume") =>
          /\ (\A i \in DOMAIN byte_ranges :
                  ULe(byte_ranges[i][1], byte_ranges[i][2])) => pc' = "resumed"
          /\ pc' = "resumed" =>
                /\ Len(byte_ranges') = Len(byte_ranges)
                /\ \A i \in DOMAIN byte_ranges :
                      ULe(byte_ranges[i][1], byte_ranges[i][2]) =>
                          AdjustedAsClaimed(byte_ranges[i], byte_ranges'[i],
                                            parts[i - 1])]_vars

\* C31 amended: the same for every range with start <= end < u64::MAX (the
\* representative of u64::MAX is -1).
C31_AdjustsRangesBelowMax ==
    [][(pc = "resume") =>
          /\ (\A i \in DOMAIN byte_ranges :
                  /\ ULe(byte_ranges[i][1], byte_ranges[i][2])
                  /\ byte_ranges[i][2] # -1) => pc' = "resumed"
          /\ pc' = "resumed" =>
                /\ Len(byte_ranges') = Len(byte_ranges)
                /\ \A i \in DOMAIN byte_ranges :
                      (/\ ULe(byte_ranges[i][1], byte_ranges[i][2])
                       /\ byte_ranges[i][2] # -1) =>
                          AdjustedAsClaimed(byte_ranges[i], byte_ranges'[i],
                                            parts[i - 1])]_vars

\* Returned: (2, 2) for a range ending at 2 whose partial has 2 bytes, and
\* (u64::MAX, u64::MAX - 1) for a range ending at u64::MAX - 1 whose partial
\* of 1 byte is longer than end - start.
C31_Witness ==
    /\ pc = "resumed"
    /\ byte_ranges = <<<<2, 2>>, <<-1, -2>>>>
    /\ Len(parts[0].data) = 2
    /\ parts[1].exists
    /\ Len(parts[1].data) = 1

====
